---- MODULE Spec2Model ----
(***************************************************************************)
(* A model of dtchess: the config loader (utils/config.py), the tag        *)
(* extractor and the training set-up (utils/utils.py), the model factory   *)
(* (models/gpt.py) and the training loop (train.py).                       *)
(*                                                                         *)
(* A Python str is a sequence of one-character strings, so that split,     *)
(* strip, slicing and the substring test are computed character by         *)
(* character.  A Python float is the pair <<m, e>> standing for m * 10^e,  *)
(* with m not divisible by 10 (zero is <<0, 0>>).  None is <<"None">>.     *)
(***************************************************************************)
EXTENDS Integers, Sequences, FiniteSets, TLC

VARIABLES
    \* config_from_file
    fileSrc,      \* how the file was written: a sequence of [e, s], entry and style
    file,         \* the file's lines, each a str
    lineNo,       \* number of lines the loop has consumed
    kwargs,       \* config.py:15
    cfgPc,        \* "idle", "reading", "returned", "raised"
    cfgErr,       \* the exception class that left config_from_file, or "none"
    cfgOut,       \* the TrainingConfig returned, or None
    \* extract_tag
    tagSrc,       \* how the input was written: a sequence of items
    input_string, \* utils.py:18
    tag_name,     \* utils.py:18
    tagPc,        \* "idle", "called", "wrapping", "returned", "raised"
    tagErr,       \* the exception class that left extract_tag, or "none"
    tagOut,       \* the str returned, or None
    \* create_model, preprocess_data, training_setup
    entry,        \* the function called
    env,          \* what the call finds: the pretrained assets, the device, the arguments
    tokeniser,    \* the GPT2Tokenizer, or None
    model,        \* the GPT2LMHeadModel, or None
    train_dl,     \* the DataLoader, or None
    setupPc,      \* "idle", "called", "returned", "raised"
    setupErr,     \* the exception class that left the call, or "none"
    \* train
    config,       \* train.py:23, an object as the map of its attributes
    train_dataloader, \* train.py:21, [examples, batch_size]
    epoch,        \* iterations of the outer loop started
    batch,        \* i of train.py:30, the index of the batch in its epoch
    steps,        \* optimiser steps taken by the run
    trainPc,      \* the statement train() is at
    trainErr,     \* the exception class that left train, or "none"
    log,          \* the calls made so far, in order
    disk,         \* the checkpoint files: path -> the steps the saved model had taken
    artifacts     \* the artifacts logged to the tracking service, in order

cfgVars == <<fileSrc, file, lineNo, kwargs, cfgPc, cfgErr, cfgOut>>

tagVars == <<tagSrc, input_string, tag_name, tagPc, tagErr, tagOut>>

setupVars == <<entry, env, tokeniser, model, train_dl, setupPc, setupErr>>

trainVars == <<config, train_dataloader, epoch, batch, steps, trainPc, trainErr, log, disk, artifacts>>

vars == <<cfgVars, tagVars, setupVars, trainVars>>

None == <<"None">>

----------------------------------------------------------------------------
(* Python str and number primitives, as the loader uses them.              *)

Whitespace == {" ", "\t", "\n"}

Digit == {"0", "1", "2", "3", "4", "5", "6", "7", "8", "9"}

DigitVal ==
    [c \in Digit |->
        CASE c = "0" -> 0 [] c = "1" -> 1 [] c = "2" -> 2 [] c = "3" -> 3
          [] c = "4" -> 4 [] c = "5" -> 5 [] c = "6" -> 6 [] c = "7" -> 7
          [] c = "8" -> 8 [] c = "9" -> 9]

Slice(s, a, b) ==
    \* s[a-1:b] in Python terms: the characters a..b, empty when a > b
    IF a > b THEN <<>> ELSE SubSeq(s, a, b)

RECURSIVE lstrip_chars(_, _)
lstrip_chars(s, cs) ==
    IF s # <<>> /\ Head(s) \in cs THEN lstrip_chars(Tail(s), cs) ELSE s

RECURSIVE rstrip_chars(_, _)
rstrip_chars(s, cs) ==
    IF s # <<>> /\ s[Len(s)] \in cs
        THEN rstrip_chars(Slice(s, 1, Len(s) - 1), cs)
        ELSE s

\* str.strip(chars)
str_strip_chars(s, cs) == rstrip_chars(lstrip_chars(s, cs), cs)

\* str.strip()
str_strip(s) == str_strip_chars(s, Whitespace)

StartsWith(s, p) == Len(p) <= Len(s) /\ SubSeq(s, 1, Len(p)) = p

\* the first index at which sep occurs in s, or 0
Find(s, sep) ==
    LET hits == {i \in 1..Len(s) : StartsWith(Slice(s, i, Len(s)), sep)}
    IN  IF hits = {} THEN 0 ELSE CHOOSE i \in hits : \A j \in hits : i <= j

\* sub in s
Contains(s, sub) == sub = <<>> \/ Find(s, sub) # 0

RECURSIVE str_split(_, _)
\* str.split(sep) for a non-empty sep: the list of parts
str_split(s, sep) ==
    LET i == Find(s, sep)
    IN  IF i = 0
            THEN <<s>>
            ELSE <<Slice(s, 1, i - 1)>>
                    \o str_split(Slice(s, i + Len(sep), Len(s)), sep)

IsDigits(s) == s # <<>> /\ \A i \in 1..Len(s) : s[i] \in Digit

RECURSIVE DigitsVal(_)
DigitsVal(s) ==
    IF s = <<>> THEN 0
    ELSE DigitsVal(Slice(s, 1, Len(s) - 1)) * 10 + DigitVal[s[Len(s)]]

Unsigned(s) == IF s # <<>> /\ Head(s) \in {"+", "-"} THEN Tail(s) ELSE s

Sign(s) == IF s # <<>> /\ Head(s) = "-" THEN -1 ELSE 1

\* int(v): surrounding whitespace and a sign are accepted; anything else
\* than decimal digits raises ValueError (ok = FALSE)
py_int(v) ==
    LET t == str_strip(v)
        d == Unsigned(t)
    IN  IF IsDigits(d)
            THEN [ok |-> TRUE, val |-> Sign(t) * DigitsVal(d)]
            ELSE [ok |-> FALSE, val |-> 0]

RECURSIVE Normalise(_, _)
Normalise(m, e) ==
    IF m = 0 THEN <<0, 0>>
    ELSE IF m % 10 = 0 THEN Normalise(m \div 10, e + 1)
    ELSE <<m, e>>

\* float(v) on decimal literals: [sign] digits [. digits] [e [sign] digits],
\* with surrounding whitespace accepted; anything else raises ValueError
py_float(v) ==
    LET t    == str_strip(v)
        u    == Unsigned(t)
        ePos == IF Find(u, <<"e">>) # 0 THEN Find(u, <<"e">>) ELSE Find(u, <<"E">>)
        mant == IF ePos = 0 THEN u ELSE Slice(u, 1, ePos - 1)
        expo == IF ePos = 0 THEN <<"0">> ELSE Slice(u, ePos + 1, Len(u))
        dot  == Find(mant, <<".">>)
        ip   == IF dot = 0 THEN mant ELSE Slice(mant, 1, dot - 1)
        fp   == IF dot = 0 THEN <<>> ELSE Slice(mant, dot + 1, Len(mant))
        okM  == /\ ip \o fp # <<>>
                /\ \A i \in 1..Len(ip \o fp) : (ip \o fp)[i] \in Digit
        okE  == IsDigits(Unsigned(expo))
    IN  IF okM /\ okE
            THEN [ok |-> TRUE,
                  val |-> Normalise(Sign(t) * DigitsVal(ip \o fp),
                                    Sign(expo) * DigitsVal(Unsigned(expo)) - Len(fp))]
            ELSE [ok |-> FALSE, val |-> <<0, 0>>]

----------------------------------------------------------------------------
(* utils/config.py                                                         *)

K_max_epochs    == <<"m","a","x","_","e","p","o","c","h","s">>
K_batch_size    == <<"b","a","t","c","h","_","s","i","z","e">>
K_num_workers   == <<"n","u","m","_","w","o","r","k","e","r","s">>
K_learning_rate == <<"l","e","a","r","n","i","n","g","_","r","a","t","e">>
K_weight_decay  == <<"w","e","i","g","h","t","_","d","e","c","a","y">>
K_betas         == <<"b","e","t","a","s">>
K_ckpt_path     == <<"c","k","p","t","_","p","a","t","h">>
K_checkpoint_every_n ==
    <<"c","h","e","c","k","p","o","i","n","t","_","e","v","e","r","y","_","n">>
K_url           == <<"u","r","l">>

\* the dataclass TrainingConfig with its defaults, overridden by kw
TrainingConfig(kw) ==
    kw @@ [max_epochs    |-> 10,
           batch_size    |-> 64,
           learning_rate |-> <<1, -4>>,
           betas         |-> <<<<9, -1>>, <<95, -2>>>>,
           weight_decay  |-> <<1, -1>>,
           ckpt_path     |-> None,
           num_workers   |-> 0]

\* k, v = line.split(":") succeeds only for exactly two parts
line_parts(line) == str_split(line, <<":">>)

\* the key taken as split leaves it
line_key_unstripped(parts) == parts[1]

\* k = k.strip()
line_key(parts) == str_strip(parts[1])

\* v = v.strip("\n").strip()
line_value(parts) == str_strip(str_strip_chars(parts[2], {"\n"}))

\* the betas branch: split on ", ", strip, drop the first character of the
\* first part and the last character of the second, float both
parse_betas(v) ==
    LET bs == str_split(v, <<",", " ">>)
    IN  IF Len(bs) # 2 THEN [ok |-> FALSE, val |-> <<>>]
        ELSE LET b1_str == str_strip(bs[1])
                 b2_str == str_strip(bs[2])
                 f1 == py_float(Slice(b1_str, 2, Len(b1_str)))
                 f2 == py_float(Slice(b2_str, 1, Len(b2_str) - 1))
             IN  IF f1.ok /\ f2.ok
                     THEN [ok |-> TRUE, val |-> <<f1.val, f2.val>>]
                     ELSE [ok |-> FALSE, val |-> <<>>]

\* the body of the loop over the file's lines: the kwargs after the line, or
\* the exception that leaves config_from_file
ParseLine(kw, line) ==
    LET parts == line_parts(line)
    IN  IF Len(parts) # 2 THEN [ok |-> FALSE, err |-> "ValueError", kwargs |-> kw]
        ELSE
        LET k == line_key(parts)
            v == line_value(parts)
            Set(name, r) ==
                IF r.ok THEN [ok |-> TRUE, err |-> "none", kwargs |-> (name :> r.val) @@ kw]
                        ELSE [ok |-> FALSE, err |-> "ValueError", kwargs |-> kw]
        IN  CASE k = K_max_epochs    -> Set("max_epochs", py_int(v))
              [] k = K_batch_size    -> Set("batch_size", py_int(v))
              [] k = K_num_workers   -> Set("num_workers", py_int(v))
              [] k = K_learning_rate -> Set("learning_rate", py_float(v))
              [] k = K_weight_decay  -> Set("weight_decay", py_float(v))
              [] k = K_betas         -> Set("betas", parse_betas(v))
              [] OTHER               -> [ok |-> TRUE, err |-> "none", kwargs |-> kw]

RECURSIVE ReadLines(_, _)
ReadLines(kw, lines) ==
    IF lines = <<>> THEN [ok |-> TRUE, err |-> "none", kwargs |-> kw]
    ELSE LET r == ParseLine(kw, Head(lines))
         IN  IF r.ok THEN ReadLines(r.kwargs, Tail(lines)) ELSE r

\* config_from_file as one call: the config returned, or the exception raised
config_from_file(lines) ==
    LET r == ReadLines(<<>>, lines)
    IN  IF r.ok THEN [ok |-> TRUE, err |-> "none", config |-> TrainingConfig(r.kwargs)]
                ELSE [ok |-> FALSE, err |-> r.err, config |-> None]

(* The config files the loader is run on.  A line is written from an entry *)
(* (what the line says) in a style (its whitespace).  kind is              *)
(*   "value"  a recognised key with a value that parses, val its meaning   *)
(*   "ckpt"   the ckpt_path field, val the path written                    *)
(*   "other"  a key that is no field of TrainingConfig                     *)
(*   "colon"  a key that is no field, with a ':' inside its value          *)
(*   "bad"    a recognised key with a value that does not parse            *)
(*   "raw"    a line without ':'; text is the whole line                   *)
Entries == <<
    [kind |-> "value", field |-> "max_epochs", key |-> K_max_epochs,
        text |-> <<"1">>, val |-> 1],
    [kind |-> "value", field |-> "max_epochs", key |-> K_max_epochs,
        text |-> <<"3">>, val |-> 3],
    [kind |-> "value", field |-> "batch_size", key |-> K_batch_size,
        text |-> <<"2">>, val |-> 2],
    [kind |-> "value", field |-> "num_workers", key |-> K_num_workers,
        text |-> <<"4">>, val |-> 4],
    [kind |-> "value", field |-> "learning_rate", key |-> K_learning_rate,
        text |-> <<"3","e","-","4">>, val |-> <<3, -4>>],
    [kind |-> "value", field |-> "weight_decay", key |-> K_weight_decay,
        text |-> <<"0",".","0","1">>, val |-> <<1, -2>>],
    [kind |-> "value", field |-> "betas", key |-> K_betas,
        text |-> <<"(","0",".","9",","," ","0",".","9","5",")">>,
        val |-> <<<<9, -1>>, <<95, -2>>>>],
    [kind |-> "value", field |-> "betas", key |-> K_betas,
        text |-> <<"[","0",".","5",","," ","0",".","9","9","]">>,
        val |-> <<<<5, -1>>, <<99, -2>>>>],
    [kind |-> "ckpt", field |-> "ckpt_path", key |-> K_ckpt_path,
        text |-> <<"c","k","p","t","s">>, val |-> <<"c","k","p","t","s">>],
    [kind |-> "other", field |-> "", key |-> K_checkpoint_every_n,
        text |-> <<"1">>, val |-> 1],
    [kind |-> "colon", field |-> "", key |-> K_url,
        text |-> <<"h","t","t","p",":","/","/","x">>, val |-> 0],
    [kind |-> "bad", field |-> "max_epochs", key |-> K_max_epochs,
        text |-> <<"x">>, val |-> 0],
    [kind |-> "bad", field |-> "betas", key |-> K_betas,
        text |-> <<"(","0",".","9",",","0",".","9","5",")">>, val |-> 0],
    [kind |-> "raw", field |-> "", key |-> <<>>,
        text |-> K_max_epochs \o <<" ", "3">>, val |-> 0],
    [kind |-> "raw", field |-> "", key |-> <<>>,
        text |-> <<>>, val |-> 0],
    [kind |-> "value", field |-> "betas", key |-> K_betas,
        text |-> <<"("," ","0",".","8",","," "," ","0",".","9"," ",")">>,
        val |-> <<<<8, -1>>, <<9, -1>>>>] >>

Plain == "plain"     \* "key: value\n"
Padded == "padded"   \* " key : value \n", blanks around the key and the value
Bare == "bare"       \* "key:value", the file's last line when it has no newline

Styles == {Plain, Padded, Bare}

Render(e, s) ==
    LET body == IF e.kind = "raw" THEN e.text
                ELSE CASE s = Plain  -> e.key \o <<":", " ">> \o e.text
                       [] s = Padded -> <<" ">> \o e.key \o <<" ", ":", " ", " ">> \o e.text
                       [] s = Bare   -> e.key \o <<":">> \o e.text
    IN  CASE s = Plain  -> body \o <<"\n">>
          [] s = Padded -> <<" ">> \o body \o <<" ", "\n">>
          [] s = Bare   -> body

MaxLines == 2

LineSrc == [e : 1..Len(Entries), s : Styles]

\* iterating a file yields lines that end in "\n", but for the last one, and
\* never an empty str
FileSrcs ==
    {f \in UNION {[1..n -> LineSrc] : n \in 0..MaxLines} :
        \A i \in 1..Len(f) :
            /\ f[i].s = Bare => i = Len(f)
            /\ Render(Entries[f[i].e], f[i].s) # <<>>}

RenderFile(f) == [i \in 1..Len(f) |-> Render(Entries[f[i].e], f[i].s)]

IdleConfig ==
    /\ fileSrc = <<>> /\ file = <<>> /\ lineNo = 0 /\ kwargs = <<>>
    /\ cfgPc = "idle" /\ cfgErr = "none" /\ cfgOut = None

InitConfig ==
    /\ fileSrc \in FileSrcs
    /\ file = RenderFile(fileSrc)
    /\ lineNo = 0
    /\ kwargs = <<>>
    /\ cfgPc = "reading"
    /\ cfgErr = "none"
    /\ cfgOut = None

\* config.py:17-29, one iteration of `for line in f`
ReadLine ==
    /\ cfgPc = "reading"
    /\ lineNo < Len(file)
    /\ LET r == ParseLine(kwargs, file[lineNo + 1])
       IN  IF r.ok
               THEN /\ kwargs' = r.kwargs
                    /\ lineNo' = lineNo + 1
                    /\ UNCHANGED <<cfgPc, cfgErr>>
               ELSE /\ cfgPc' = "raised"
                    /\ cfgErr' = r.err
                    /\ UNCHANGED <<kwargs, lineNo>>
    /\ UNCHANGED <<fileSrc, file, cfgOut>>
    /\ UNCHANGED <<tagVars, setupVars, trainVars>>

\* config.py:30
ReturnConfig ==
    /\ cfgPc = "reading"
    /\ lineNo = Len(file)
    /\ cfgOut' = TrainingConfig(kwargs)
    /\ cfgPc' = "returned"
    /\ UNCHANGED <<fileSrc, file, lineNo, kwargs, cfgErr>>
    /\ UNCHANGED <<tagVars, setupVars, trainVars>>

----------------------------------------------------------------------------
(* Claims about config_from_file, under SpecConfig.                        *)

Entry(i) == Entries[fileSrc[i].e]

Lines == 1..Len(fileSrc)

Fields ==
    {"max_epochs", "batch_size", "learning_rate", "betas", "weight_decay",
     "ckpt_path", "num_workers"}

RecognisedFields == Fields \ {"ckpt_path"}

\* the lines that write a value for the field
Occurrences(f) == {i \in Lines : Entry(i).kind \in {"value", "ckpt"} /\ Entry(i).field = f}

LastOccurrence(f) == CHOOSE i \in Occurrences(f) : \A j \in Occurrences(f) : j <= i

Finished == cfgPc \in {"returned", "raised"}

\* every line is "key: value" with one ':' and a value that suits the key
WellFormedFile == \A i \in Lines : Entry(i).kind \in {"value", "ckpt", "other"}

\* C6: for a valid config file the loader returns, and every recognised key
\* written in the file holds the meaning of its last line under the parse
\* rule of the key (int, float, the bracketed pair of floats), whatever
\* blanks surround the key and the value.
C6_ParseRules ==
    (Finished /\ WellFormedFile) =>
        /\ cfgPc = "returned"
        /\ \A f \in RecognisedFields :
              Occurrences(f) # {} => cfgOut[f] = Entry(LastOccurrence(f)).val

C6_Witness ==
    /\ cfgPc = "returned"
    /\ \E i, j \in Lines :
          /\ Entry(i).field = "betas" /\ fileSrc[i].s = Padded
          /\ Entry(j).field = "learning_rate" /\ fileSrc[j].s = Bare
    /\ cfgOut.betas = <<<<9, -1>>, <<95, -2>>>>
    /\ cfgOut.learning_rate = <<3, -4>>

\* C4 (as claimed): for a file of well-formed lines the loader returns, a
\* field whose key is not written has its default, and a field whose key is
\* written has the value of its last line.
C4_DefaultsAndLastOccurrence ==
    (Finished /\ WellFormedFile) =>
        /\ cfgPc = "returned"
        /\ \A f \in Fields :
              IF Occurrences(f) = {}
                  THEN cfgOut[f] = TrainingConfig(<<>>)[f]
                  ELSE cfgOut[f] = Entry(LastOccurrence(f)).val

\* a line has the separator when splitting it on ':' gives more than one part
HasSeparator(i) == Contains(file[i], <<":">>)

\* C5 (as claimed): a file with a line that lacks ':' fails and returns no
\* config; a file whose lines all hold ':' and a value that parses for the
\* key does not fail.
C5_FailsOnlyWithoutSeparator ==
    Finished =>
        /\ (\E i \in Lines : ~HasSeparator(i)) =>
              cfgPc = "raised" /\ cfgOut = None
        /\ (\A i \in Lines : HasSeparator(i) /\ Entry(i).kind # "bad") =>
              cfgPc = "returned"

RemoveAt(seq, i) == SubSeq(seq, 1, i - 1) \o SubSeq(seq, i + 1, Len(seq))

\* C7 (as claimed): a line with an unrecognised key, whatever its value,
\* makes no difference: the outcome is that of the file without the line.
C7_UnrecognisedKeyIgnored ==
    Finished =>
        \A i \in Lines :
            Entry(i).kind \in {"other", "colon", "ckpt"} =>
                LET r == config_from_file(RemoveAt(file, i))
                IN  IF r.ok THEN cfgPc = "returned" /\ cfgOut = r.config
                            ELSE cfgPc = "raised"

----------------------------------------------------------------------------
(* utils/utils.py: extract_tag                                             *)

N_root  == <<"r","o","o","t">>
N_move  == <<"m","o","v","e">>
N_moves == <<"m","o","v","e","s">>
N_score == <<"s","c","o","r","e">>
T_e4    == <<"e","4">>

OpenTag(name) == <<"<">> \o name \o <<">">>

CloseTag(name) == <<"<", "/">> \o name \o <<">">>

RECURSIVE Lex(_)
\* the markup of a document: tags [t |-> "open" | "close", s |-> name] and
\* the character data between them [t |-> "text", s |-> data]; a '<' that
\* no '>' closes is [t |-> "broken"]
Lex(s) ==
    IF s = <<>> THEN <<>>
    ELSE IF Head(s) = "<"
        THEN LET gt == Find(s, <<">">>)
             IN  IF gt = 0 THEN <<[t |-> "broken", s |-> s]>>
                 ELSE IF gt > 2 /\ s[2] = "/"
                     THEN <<[t |-> "close", s |-> Slice(s, 3, gt - 1)]>>
                            \o Lex(Slice(s, gt + 1, Len(s)))
                     ELSE <<[t |-> "open", s |-> Slice(s, 2, gt - 1)]>>
                            \o Lex(Slice(s, gt + 1, Len(s)))
        ELSE LET lt  == Find(s, <<"<">>)
                 end == IF lt = 0 THEN Len(s) ELSE lt - 1
             IN  <<[t |-> "text", s |-> Slice(s, 1, end)]>>
                    \o Lex(Slice(s, end + 1, Len(s)))

RECURSIVE Walk(_, _, _, _)
\* the parser over the markup from position k, with the stack of open
\* elements and the children of the document element found so far, each
\* [tag, text]: text is the character data that directly follows the start
\* tag, or None
Walk(toks, k, stack, kids) ==
    IF k > Len(toks)
        THEN [ok |-> stack = <<>> /\ toks # <<>>, kids |-> kids]
    ELSE LET tok == toks[k]
         IN  CASE tok.t = "open" ->
                    IF (k > 1 /\ stack = <<>>) \/ tok.s = <<>>
                        THEN [ok |-> FALSE, kids |-> kids]
                        ELSE Walk(toks, k + 1, Append(stack, tok.s),
                                  IF Len(stack) = 1
                                      THEN Append(kids,
                                          [tag  |-> tok.s,
                                           text |-> IF k < Len(toks) /\ toks[k + 1].t = "text"
                                                        THEN toks[k + 1].s ELSE None])
                                      ELSE kids)
               [] tok.t = "close" ->
                    IF stack = <<>> \/ stack[Len(stack)] # tok.s
                        THEN [ok |-> FALSE, kids |-> kids]
                        ELSE Walk(toks, k + 1, Slice(stack, 1, Len(stack) - 1), kids)
               [] tok.t = "text" ->
                    IF stack = <<>>
                        THEN [ok |-> FALSE, kids |-> kids]
                        ELSE Walk(toks, k + 1, stack, kids)
               [] OTHER -> [ok |-> FALSE, kids |-> kids]

\* ET.fromstring(text): the document element's children, or ParseError
ET_fromstring(text) == Walk(Lex(text), 1, <<>>, <<>>)

\* Element.find(name) for a plain tag name: the first child with that tag;
\* found is FALSE where find returns None
ET_find(kids, name) ==
    LET hits == {k \in 1..Len(kids) : kids[k].tag = name}
    IN  IF hits = {} THEN [found |-> FALSE, tag |-> name, text |-> None]
        ELSE LET el == kids[CHOOSE k \in hits : \A j \in hits : k <= j]
             IN  [found |-> TRUE, tag |-> el.tag, text |-> el.text]

\* utils.py:19, the guard of extract_tag
tag_absent(input, name) == ~Contains(input, name)

\* utils.py:21
wrap_root(input) == OpenTag(N_root) \o input \o CloseTag(N_root)

(* The inputs extract_tag is run on: a sequence of items, each             *)
(*   "text"    character data                                              *)
(*   "elem"    <name>text</name>                                           *)
(*   "nested"  <outer><name>text</name></outer>                            *)
(*   "open"    <name> with no end tag                                      *)
Items ==
    [kind : {"text"}, outer : {<<>>}, name : {<<>>}, text : {T_e4, N_move}]
    \cup [kind : {"elem"}, outer : {<<>>}, name : {N_move, N_moves, N_score},
          text : {<<>>, T_e4, N_move}]
    \cup [kind : {"nested"}, outer : {N_moves, N_score}, name : {N_move, N_score},
          text : {T_e4}]
    \cup [kind : {"open"}, outer : {<<>>}, name : {N_move}, text : {<<>>}]

Serialise(it) ==
    CASE it.kind = "text"   -> it.text
      [] it.kind = "elem"   -> OpenTag(it.name) \o it.text \o CloseTag(it.name)
      [] it.kind = "nested" -> OpenTag(it.outer) \o OpenTag(it.name) \o it.text
                                  \o CloseTag(it.name) \o CloseTag(it.outer)
      [] it.kind = "open"   -> OpenTag(it.name)

RECURSIVE SerialiseAll(_)
SerialiseAll(items) ==
    IF items = <<>> THEN <<>> ELSE Serialise(Head(items)) \o SerialiseAll(Tail(items))

MaxItems == 2

TagNames == {N_move, N_score}

IdleTag ==
    /\ tagSrc = <<>> /\ input_string = <<>> /\ tag_name = <<>>
    /\ tagPc = "idle" /\ tagErr = "none" /\ tagOut = None

InitTag ==
    /\ tagSrc \in UNION {[1..n -> Items] : n \in 0..MaxItems}
    /\ input_string = SerialiseAll(tagSrc)
    /\ tag_name \in TagNames
    /\ tagPc = "called"
    /\ tagErr = "none"
    /\ tagOut = None

\* utils.py:19-21
CheckTagPresent ==
    /\ tagPc = "called"
    /\ IF tag_absent(input_string, tag_name)
           THEN /\ tagPc' = "raised"
                /\ tagErr' = "ValueError"
                /\ UNCHANGED input_string
           ELSE /\ tagPc' = "wrapped"
                /\ input_string' = wrap_root(input_string)
                /\ UNCHANGED tagErr
    /\ UNCHANGED <<tagSrc, tag_name, tagOut>>
    /\ UNCHANGED <<cfgVars, setupVars, trainVars>>

\* utils.py:23
FindTagText ==
    /\ tagPc = "wrapped"
    /\ LET doc == ET_fromstring(input_string)
           el  == ET_find(doc.kids, tag_name)
       IN  IF ~doc.ok
               THEN tagPc' = "raised" /\ tagErr' = "ParseError" /\ UNCHANGED tagOut
           ELSE IF ~el.found
               THEN tagPc' = "raised" /\ tagErr' = "AttributeError" /\ UNCHANGED tagOut
           ELSE tagPc' = "returned" /\ tagOut' = el.text /\ UNCHANGED tagErr
    /\ UNCHANGED <<tagSrc, input_string, tag_name>>
    /\ UNCHANGED <<cfgVars, setupVars, trainVars>>

\* the elements written directly in the input, which the wrapping makes the
\* children of the root
ChildrenWritten == SelectSeq(tagSrc, LAMBDA it : it.kind = "elem" \/ it.kind = "nested")

ChildTag(it) == IF it.kind = "nested" THEN it.outer ELSE it.name

ChildText(it) ==
    IF it.kind = "elem" /\ it.text # <<>> THEN it.text ELSE None

NamedChildren == SelectSeq(ChildrenWritten, LAMBDA it : ChildTag(it) = tag_name)

WellFormedInput == \A k \in 1..Len(tagSrc) : tagSrc[k].kind # "open"

\* C8 (as claimed): on a well-formed input, extract_tag returns the text of
\* the first child element named tag when there is one, and raises
\* ValueError, and nothing else, when there is none.
C8_TextOrValueError ==
    (tagPc \in {"returned", "raised"} /\ WellFormedInput) =>
        IF NamedChildren # <<>>
            THEN tagPc = "returned" /\ tagOut = ChildText(Head(NamedChildren))
            ELSE tagPc = "raised" /\ tagErr = "ValueError"

----------------------------------------------------------------------------
(* models/gpt.py and utils/utils.py: create_model, preprocess_data,        *)
(* training_setup                                                          *)

PAD == "[PAD]"

\* GPT2Tokenizer.from_pretrained: a vocabulary of v entries, ids 0..v-1, no
\* added token and no padding token
GPT2Tokenizer_from_pretrained(v) ==
    [vocab_size |-> v, added |-> <<>>, pad_token |-> None]

\* tokeniser.add_special_tokens({"pad_token": tok}): a token the tokeniser
\* does not know is added after the last id; a known one is only named
add_special_tokens(tk, tok) ==
    IF \E k \in 1..Len(tk.added) : tk.added[k] = tok
        THEN [tk EXCEPT !.pad_token = <<tok>>]
        ELSE [tk EXCEPT !.added = Append(@, tok), !.pad_token = <<tok>>]

\* len(tokeniser); tokeniser.vocab_size leaves the added tokens out
TokeniserLen(tk) == tk.vocab_size + Len(tk.added)

\* the ids the tokeniser can emit
TokenIds(tk) == 0..(TokeniserLen(tk) - 1)

pad_token_id(tk) ==
    tk.vocab_size - 1 + CHOOSE k \in 1..Len(tk.added) : <<tk.added[k]>> = tk.pad_token

n_embd(model_type) == IF model_type = "gpt2" THEN 768 ELSE 1024

\* GPT2LMHeadModel.from_pretrained: the attributes of the module are the
\* transformer, whose wte embeds the input tokens, and lm_head
GPT2LMHeadModel_from_pretrained(model_type, v) ==
    [transformer |->
        [wte |-> [num_embeddings |-> v, embedding_dim |-> n_embd(model_type)],
         wpe |-> [num_embeddings |-> 1024, embedding_dim |-> n_embd(model_type)]],
     lm_head |-> [in_features |-> n_embd(model_type), out_features |-> v],
     device  |-> "cpu"]

\* gpt.py:6-17
create_model(e) ==
    LET device == IF e.cuda THEN "cuda" ELSE "cpu"
        tk     == add_special_tokens(GPT2Tokenizer_from_pretrained(e.vocab), PAD)
        mdl    == GPT2LMHeadModel_from_pretrained(e.model_type, e.vocab)
    IN  IF "wte" \notin DOMAIN mdl
            THEN [ok |-> FALSE, err |-> "AttributeError", tokeniser |-> tk, model |-> mdl]
            ELSE [ok |-> TRUE, err |-> "none", tokeniser |-> tk,
                  model |->
                      [([wte |-> [num_embeddings |-> tk.vocab_size + 1,
                                  embedding_dim  |-> mdl.wte.embedding_dim]] @@ mdl)
                          EXCEPT !.device = device]]

\* utils.py:89-107
preprocess_data(tk, cfg) ==
    IF "dataset" \notin DOMAIN cfg
        THEN [ok |-> FALSE, err |-> "AttributeError", tokeniser |-> tk, train_dl |-> None]
        ELSE [ok |-> TRUE, err |-> "none",
              tokeniser |-> add_special_tokens(tk, PAD),
              train_dl  |-> [batch_size |-> cfg.batch_size, max_length |-> 1024]]

\* utils.py:72-86
training_setup(cfg, e) ==
    LET m == create_model(e)
    IN  IF ~m.ok
            THEN [ok |-> FALSE, err |-> m.err, tokeniser |-> m.tokeniser,
                  model |-> m.model, train_dl |-> None]
            ELSE LET d == preprocess_data(m.tokeniser, cfg)
                 IN  [ok |-> d.ok, err |-> d.err, tokeniser |-> d.tokeniser,
                      model |-> m.model, train_dl |-> d.train_dl]

MaxVocab == 4

ModelTypes == {"gpt2", "gpt2-medium"}

\* the config the call is given: a TrainingConfig, on which the caller may
\* have set the attribute `dataset` that preprocess_data reads
SetupConfig(e) ==
    IF e.dataset THEN [dataset |-> <<"d">>] @@ TrainingConfig(<<>>)
                 ELSE TrainingConfig(<<>>)

\* the tokeniser preprocess_data is given when it is called on its own
SetupTokeniser(e) ==
    IF e.padded THEN add_special_tokens(GPT2Tokenizer_from_pretrained(e.vocab), PAD)
                ELSE GPT2Tokenizer_from_pretrained(e.vocab)

IdleSetup ==
    /\ entry = "none" /\ env = <<>> /\ tokeniser = None /\ model = None
    /\ train_dl = None /\ setupPc = "idle" /\ setupErr = "none"

InitSetup ==
    /\ entry \in {"create_model", "preprocess_data", "training_setup"}
    /\ env \in [vocab : 1..MaxVocab, model_type : ModelTypes, cuda : BOOLEAN,
                dataset : BOOLEAN, padded : BOOLEAN]
    /\ entry = "create_model" => ~env.dataset /\ ~env.padded
    /\ entry = "training_setup" => ~env.padded
    /\ entry = "preprocess_data" => ~env.cuda /\ env.model_type = "gpt2"
    /\ tokeniser = IF entry = "preprocess_data" THEN SetupTokeniser(env) ELSE None
    /\ model = None
    /\ train_dl = None
    /\ setupPc = "called"
    /\ setupErr = "none"

CallCreateModel ==
    /\ setupPc = "called" /\ entry = "create_model"
    /\ LET r == create_model(env)
       IN  /\ setupPc' = IF r.ok THEN "returned" ELSE "raised"
           /\ setupErr' = r.err
           /\ tokeniser' = r.tokeniser
           /\ model' = r.model
    /\ UNCHANGED <<entry, env, train_dl>>
    /\ UNCHANGED <<cfgVars, tagVars, trainVars>>

CallPreprocessData ==
    /\ setupPc = "called" /\ entry = "preprocess_data"
    /\ LET r == preprocess_data(tokeniser, SetupConfig(env))
       IN  /\ setupPc' = IF r.ok THEN "returned" ELSE "raised"
           /\ setupErr' = r.err
           /\ tokeniser' = r.tokeniser
           /\ train_dl' = r.train_dl
    /\ UNCHANGED <<entry, env, model>>
    /\ UNCHANGED <<cfgVars, tagVars, trainVars>>

CallTrainingSetup ==
    /\ setupPc = "called" /\ entry = "training_setup"
    /\ LET r == training_setup(SetupConfig(env), env)
       IN  /\ setupPc' = IF r.ok THEN "returned" ELSE "raised"
           /\ setupErr' = r.err
           /\ tokeniser' = r.tokeniser
           /\ model' = r.model
           /\ train_dl' = r.train_dl
    /\ UNCHANGED <<entry, env>>
    /\ UNCHANGED <<cfgVars, tagVars, trainVars>>

\* C9 (as claimed): create_model, and training_setup with a config that
\* names its dataset, return; the tokeniser then has one entry more than the
\* pretrained vocabulary, the embedding table the model reads its input
\* tokens from has as many rows, and every id the tokeniser can emit, the
\* padding id among them, is a row of that table.
C9_EmbeddingMatchesVocabulary ==
    (/\ setupPc \in {"returned", "raised"}
     /\ entry = "create_model" \/ (entry = "training_setup" /\ env.dataset)) =>
        /\ setupPc = "returned"
        /\ TokeniserLen(tokeniser) = env.vocab + 1
        /\ model.transformer.wte.num_embeddings = TokeniserLen(tokeniser)
        /\ \A id \in TokenIds(tokeniser) : id < model.transformer.wte.num_embeddings
        /\ pad_token_id(tokeniser) < model.transformer.wte.num_embeddings

----------------------------------------------------------------------------
(* train.py: train                                                         *)

MaxEpochs == 2

MaxEvery == 2

MaxExamples == 6

\* the file "max_epochs: 1 / batch_size: 2 / checkpoint_every_n: 1"
EndToEndSrc == <<[e |-> 1, s |-> Plain], [e |-> 3, s |-> Plain], [e |-> 10, s |-> Plain]>>

\* the config files train is run with: the end-to-end file and the empty file
TrainFileSrcs == {<<>>, EndToEndSrc}

\* the attributes train() reads that TrainingConfig does not declare
ExtraAttrs == {"num_epochs", "log_every_n", "checkpoint_every_n"}

\* a loaded config on which the caller has set the attributes in `attrs`
WithAttrs(cfg, attrs, ne, ce) ==
    [a \in attrs |->
        CASE a = "num_epochs"         -> ne
          [] a = "log_every_n"        -> 1
          [] a = "checkpoint_every_n" -> ce] @@ cfg

\* len(train_dataloader): DataLoader keeps the last, short batch
NumBatches(dl) == (dl.examples + dl.batch_size - 1) \div dl.batch_size

\* wandb.run.id, set by wandb.init for the whole run
run_id == "run0"

\* train.py:41
model_path(cfg) == [dir |-> cfg.ckpt_path, name |-> <<"gpt2-", run_id, ".pt">>]

\* train.py:40, for a config that has checkpoint_every_n, not 0
checkpoint_due(idx, cfg) == idx > 0 /\ idx % cfg.checkpoint_every_n = 0

\* the loop body with backward() before zero_grad()
NextStatementBackwardFirst(stmt) ==
    CASE stmt = "forward"   -> "backward"
      [] stmt = "backward"  -> "zero_grad"
      [] stmt = "zero_grad" -> "step"
      [] stmt = "step"      -> "ckpt_test"

\* train.py:33-40: the statement that follows each statement of the loop body
NextStatement(stmt) ==
    CASE stmt = "forward"   -> "zero_grad"
      [] stmt = "zero_grad" -> "backward"
      [] stmt = "backward"  -> "step"
      [] stmt = "step"      -> "ckpt_test"

Call(op) == [op |-> op, epoch |-> epoch, batch |-> batch, steps |-> steps]

\* train.py:33, model(input_ids, labels=input_ids) on the batch input_ids
forward_call(input_ids) ==
    [input_ids |-> input_ids, labels |-> input_ids] @@ Call("forward")

IdleTrain ==
    /\ config = None /\ train_dataloader = None /\ epoch = 0 /\ batch = 0
    /\ steps = 0 /\ trainPc = "idle" /\ trainErr = "none" /\ log = <<>>
    /\ disk = <<>> /\ artifacts = <<>>

\* the program from its start: the config file is about to be read
InitTrain ==
    /\ fileSrc \in TrainFileSrcs
    /\ file = RenderFile(fileSrc)
    /\ lineNo = 0
    /\ kwargs = <<>>
    /\ cfgPc = "reading"
    /\ cfgErr = "none"
    /\ cfgOut = None
    /\ IdleTrain

\* train.py:54-56, train() called with the config that was loaded, on which
\* the caller may have set attributes, and a loader over n examples built
\* with the config's batch_size (utils.py:106)
CallTrain ==
    /\ cfgPc = "returned"
    /\ trainPc = "idle"
    /\ \E attrs \in SUBSET ExtraAttrs, ne \in 0..MaxEpochs, ce \in 0..MaxEvery,
          n \in 0..MaxExamples :
          /\ config' = WithAttrs(cfgOut, attrs, ne, ce)
          /\ train_dataloader' = [examples |-> n, batch_size |-> cfgOut.batch_size]
    /\ trainPc' = "init"
    /\ UNCHANGED <<epoch, batch, steps, trainErr, log, disk, artifacts>>
    /\ UNCHANGED <<cfgVars, tagVars, setupVars>>

\* train.py:25
WandbInit ==
    /\ trainPc = "init"
    /\ log' = Append(log, Call("wandb.init"))
    /\ trainPc' = "watch"
    /\ UNCHANGED <<config, train_dataloader, epoch, batch, steps, trainErr, disk, artifacts>>
    /\ UNCHANGED <<cfgVars, tagVars, setupVars>>

\* train.py:26
WandbWatch ==
    /\ trainPc = "watch"
    /\ IF "log_every_n" \in DOMAIN config
           THEN /\ log' = Append(log, Call("wandb.watch"))
                /\ trainPc' = "model_train"
                /\ UNCHANGED trainErr
           ELSE /\ trainPc' = "raised"
                /\ trainErr' = "AttributeError"
                /\ UNCHANGED log
    /\ UNCHANGED <<config, train_dataloader, epoch, batch, steps, disk, artifacts>>
    /\ UNCHANGED <<cfgVars, tagVars, setupVars>>

\* train.py:28
ModelTrain ==
    /\ trainPc = "model_train"
    /\ log' = Append(log, Call("model.train"))
    /\ trainPc' = "epochs"
    /\ UNCHANGED <<config, train_dataloader, epoch, batch, steps, trainErr, disk, artifacts>>
    /\ UNCHANGED <<cfgVars, tagVars, setupVars>>

\* train.py:29, range(config.num_epochs)
EnterEpochLoop ==
    /\ trainPc = "epochs"
    /\ IF "num_epochs" \in DOMAIN config
           THEN trainPc' = "epoch" /\ UNCHANGED trainErr
           ELSE trainPc' = "raised" /\ trainErr' = "AttributeError"
    /\ UNCHANGED <<config, train_dataloader, epoch, batch, steps, log, disk, artifacts>>
    /\ UNCHANGED <<cfgVars, tagVars, setupVars>>

\* train.py:29, the next epoch, and enumerate() of train.py:30 starting at 0;
\* or the end of the outer loop
NextEpoch ==
    /\ trainPc = "epoch"
    /\ IF epoch < config.num_epochs
           THEN epoch' = epoch + 1 /\ batch' = 0 /\ trainPc' = "batch"
           ELSE trainPc' = "return" /\ UNCHANGED <<epoch, batch>>
    /\ UNCHANGED <<config, train_dataloader, steps, trainErr, log, disk, artifacts>>
    /\ UNCHANGED <<cfgVars, tagVars, setupVars>>

\* train.py:30, the next batch of the epoch, or the end of the inner loop
NextBatch ==
    /\ trainPc = "batch"
    /\ trainPc' = IF batch < NumBatches(train_dataloader) THEN "forward" ELSE "epoch"
    /\ UNCHANGED <<config, train_dataloader, epoch, batch, steps, trainErr, log, disk, artifacts>>
    /\ UNCHANGED <<cfgVars, tagVars, setupVars>>

\* train.py:31-34, model(input_ids, labels=input_ids)
Forward ==
    /\ trainPc = "forward"
    /\ log' = Append(log, forward_call(<<epoch, batch>>))
    /\ trainPc' = NextStatement("forward")
    /\ UNCHANGED <<config, train_dataloader, epoch, batch, steps, trainErr, disk, artifacts>>
    /\ UNCHANGED <<cfgVars, tagVars, setupVars>>

\* train.py:36
ZeroGrad ==
    /\ trainPc = "zero_grad"
    /\ log' = Append(log, Call("zero_grad"))
    /\ trainPc' = NextStatement("zero_grad")
    /\ UNCHANGED <<config, train_dataloader, epoch, batch, steps, trainErr, disk, artifacts>>
    /\ UNCHANGED <<cfgVars, tagVars, setupVars>>

\* train.py:37
Backward ==
    /\ trainPc = "backward"
    /\ log' = Append(log, Call("backward"))
    /\ trainPc' = NextStatement("backward")
    /\ UNCHANGED <<config, train_dataloader, epoch, batch, steps, trainErr, disk, artifacts>>
    /\ UNCHANGED <<cfgVars, tagVars, setupVars>>

\* train.py:38
OptimiserStep ==
    /\ trainPc = "step"
    /\ log' = Append(log, Call("step"))
    /\ steps' = steps + 1
    /\ trainPc' = NextStatement("step")
    /\ UNCHANGED <<config, train_dataloader, epoch, batch, trainErr, disk, artifacts>>
    /\ UNCHANGED <<cfgVars, tagVars, setupVars>>

\* train.py:40; `and` reads config.checkpoint_every_n only when i > 0
CheckpointTest ==
    /\ trainPc = "ckpt_test"
    /\ IF batch = 0
           THEN trainPc' = "batch" /\ batch' = batch + 1 /\ UNCHANGED trainErr
       ELSE IF "checkpoint_every_n" \notin DOMAIN config
           THEN trainPc' = "raised" /\ trainErr' = "AttributeError" /\ UNCHANGED batch
       ELSE IF config.checkpoint_every_n = 0
           THEN trainPc' = "raised" /\ trainErr' = "ZeroDivisionError" /\ UNCHANGED batch
       ELSE IF checkpoint_due(batch, config)
           THEN trainPc' = "save" /\ UNCHANGED <<batch, trainErr>>
       ELSE trainPc' = "batch" /\ batch' = batch + 1 /\ UNCHANGED trainErr
    /\ UNCHANGED <<config, train_dataloader, epoch, steps, log, disk, artifacts>>
    /\ UNCHANGED <<cfgVars, tagVars, setupVars>>

\* train.py:41-42
SaveModel ==
    /\ trainPc = "save"
    /\ disk' = (model_path(config) :> steps) @@ disk
    /\ log' = Append(log, Call("save"))
    /\ trainPc' = "artifact"
    /\ UNCHANGED <<config, train_dataloader, epoch, batch, steps, trainErr, artifacts>>
    /\ UNCHANGED <<cfgVars, tagVars, setupVars>>

\* train.py:43-45, and the end of the loop body
LogArtifact ==
    /\ trainPc = "artifact"
    /\ artifacts' = Append(artifacts,
          [name |-> <<"gpt2-", run_id>>, file |-> model_path(config),
           content |-> disk[model_path(config)]])
    /\ log' = Append(log, Call("log_artifact"))
    /\ batch' = batch + 1
    /\ trainPc' = "batch"
    /\ UNCHANGED <<config, train_dataloader, epoch, steps, trainErr, disk>>
    /\ UNCHANGED <<cfgVars, tagVars, setupVars>>

\* train.py:46
ReturnModel ==
    /\ trainPc = "return"
    /\ trainPc' = "returned"
    /\ UNCHANGED <<config, train_dataloader, epoch, batch, steps, trainErr, log, disk, artifacts>>
    /\ UNCHANGED <<cfgVars, tagVars, setupVars>>

----------------------------------------------------------------------------
(* Claims about train, under SpecTrain.                                    *)

Calls(op) == {k \in 1..Len(log) : log[k].op = op}

TrainEnded == trainPc \in {"returned", "raised"}

SameBatch(a, b) == a.epoch = b.epoch /\ a.batch = b.batch

\* C1 (as claimed): train() on the config loaded from the end-to-end file,
\* with a loader over 4 examples, returns after exactly 2 rounds of forward,
\* backward and optimiser step, and has logged a checkpoint artifact.
C1_EndToEnd ==
    (/\ TrainEnded
     /\ fileSrc = EndToEndSrc
     /\ config = cfgOut
     /\ train_dataloader.examples = 4) =>
        /\ trainPc = "returned"
        /\ Cardinality(Calls("forward")) = 2
        /\ Cardinality(Calls("backward")) = 2
        /\ Cardinality(Calls("step")) = 2
        /\ Len(artifacts) >= 1

\* the steps of the run, counted from 0, after which a checkpoint was saved
CheckpointedSteps == {log[k].steps - 1 : k \in Calls("save")}

\* C2 (as claimed): in a run that returns, the steps of the whole run after
\* which a checkpoint was saved are those s > 0 that are multiples of
\* checkpoint_every_n.
C2_CadenceOverRun ==
    (/\ trainPc = "returned"
     /\ "checkpoint_every_n" \in DOMAIN config
     /\ config.checkpoint_every_n > 0) =>
        CheckpointedSteps =
            {st \in 0..(steps - 1) : st > 0 /\ st % config.checkpoint_every_n = 0}

\* C3 (as claimed): there are as many checkpoint files as checkpoints saved,
\* so no checkpoint was written over an earlier one.
C3_CheckpointsNeverOverwritten ==
    Cardinality(DOMAIN disk) = Cardinality(Calls("save"))

\* C10: the tracking session is initialised once, before anything else; in
\* every batch the forward pass is followed by zero_grad, backward and the
\* optimiser step, in that order and with nothing in between; a forward pass
\* comes first in the run or right after the end of another batch; and a
\* checkpoint is saved, then logged, right after its batch's optimiser step.
C10_BatchOrder ==
    /\ \A k \in 1..Len(log) : (log[k].op = "wandb.init") = (k = 1)
    /\ \A k \in 2..Len(log) :
          LET prev == log[k - 1]
              cur  == log[k]
          IN  /\ cur.op = "zero_grad" => prev.op = "forward" /\ SameBatch(prev, cur)
              /\ cur.op = "backward" => prev.op = "zero_grad" /\ SameBatch(prev, cur)
              /\ cur.op = "step" => prev.op = "backward" /\ SameBatch(prev, cur)
              /\ cur.op = "save" => prev.op = "step" /\ SameBatch(prev, cur)
              /\ cur.op = "log_artifact" => prev.op = "save" /\ SameBatch(prev, cur)
              /\ cur.op = "forward" =>
                    /\ cur.labels = cur.input_ids
                    /\ cur.input_ids = <<cur.epoch, cur.batch>>
                    /\ prev.op \in {"model.train", "step", "log_artifact"}
                    /\ ~SameBatch(prev, cur)
                    /\ cur.steps = Cardinality(Calls("forward") \cap 1..(k - 1))
    /\ \A k \in Calls("forward") \cup Calls("step") : k > 1

C10_Witness ==
    /\ trainPc = "returned"
    /\ epoch = 2
    /\ Cardinality(Calls("step")) = 6
    /\ Cardinality(Calls("log_artifact")) = 2

----------------------------------------------------------------------------
(* The specifications: each runs one part of the program on every input    *)
(* within the bounds.                                                      *)

InitOfConfig == InitConfig /\ IdleTag /\ IdleSetup /\ IdleTrain

NextConfig == ReadLine \/ ReturnConfig

SpecConfig == InitOfConfig /\ [][NextConfig]_vars

InitOfTag == IdleConfig /\ InitTag /\ IdleSetup /\ IdleTrain

NextTag == CheckTagPresent \/ FindTagText

SpecTag == InitOfTag /\ [][NextTag]_vars

InitOfSetup == IdleConfig /\ IdleTag /\ InitSetup /\ IdleTrain

NextSetup == CallCreateModel \/ CallPreprocessData \/ CallTrainingSetup

SpecSetup == InitOfSetup /\ [][NextSetup]_vars

InitOfTrain == InitTrain /\ IdleTag /\ IdleSetup

NextTrain ==
    \/ ReadLine \/ ReturnConfig \/ CallTrain
    \/ WandbInit \/ WandbWatch \/ ModelTrain \/ EnterEpochLoop \/ NextEpoch
    \/ NextBatch \/ Forward \/ ZeroGrad \/ Backward \/ OptimiserStep
    \/ CheckpointTest \/ SaveModel \/ LogArtifact \/ ReturnModel

SpecTrain == InitOfTrain /\ [][NextTrain]_vars

====
